---- MODULE Spec2Model ----
(***************************************************************************)
(* Model of the web-scraping.dev scraper (src/scrape_data.py) and of the   *)
(* Streamlit dashboard's Reviews view (src/app.py).                        *)
(*                                                                         *)
(* Python values are represented as follows.  None (and an absent key or   *)
(* element) is the string None; a failed _parse_date / a NaT is the empty  *)
(* tuple; a calendar date is <<year, month, day>>; a list is a sequence; a *)
(* dict is a record.  One loop iteration of a pagination driver (request,  *)
(* parse, accumulate, break-or-sleep) is one action, and the response of   *)
(* the remote site is chosen when the request is made.                     *)
(***************************************************************************)
EXTENDS Integers, Sequences, FiniteSets, TLC

VARIABLES
    driver,        \* the driver function being executed
    pc,            \* its position: "loop", "return", "done", "raised"
    max_pages,     \* its max_pages argument
    page,          \* 1-based number of the loop iteration to run next
    products,      \* scrape_products_html: products
    seen_urls,     \* scrape_products_html: seen_urls
    testimonials,  \* scrape_testimonials_api: testimonials
    all_reviews,   \* scrape_reviews_api: all_reviews
    after,         \* scrape_reviews_api: after
    resp,          \* scrape_reviews_api: page_info and edges[-1] of the last response
    ret,           \* the list the driver returned
    err,           \* the exception that escaped, "" when none
    log,           \* history: the requests sent and the sleeps performed
    hist,          \* history: one summary per response received
    collected,     \* history: the candidate records in collection order
    mpc,           \* scrape_data.main: position
    out,           \* scrape_data.main: out
    got,           \* history: what each driver called by main had collected
    buf,           \* data.json: text written but still in the writer's buffer
    file,          \* data.json: the content on disk
    data,          \* app.load_data: what the dashboard process loaded
    dpc,           \* app.main (Reviews view): position of the render
    view           \* app.main (Reviews view): the render's locals and outputs

drvVars == <<driver, pc, max_pages, page, products, seen_urls, testimonials,
             all_reviews, after, resp, ret, err, log, hist, collected>>
mainVars == <<mpc, out, got, buf, file, data>>
dashVars == <<dpc, view>>
vars == <<drvVars, mainVars, dashVars>>

(***************************************************************************)
(* Bounds of the model.                                                    *)
(***************************************************************************)
\* largest max_pages argument explored (the code's default is 50)
MaxPages == 3
\* most cards / edges the site serves during one call of a driver
MaxCards == 3
\* the same, for each driver call made by scrape_data.main
MainCards == 1
\* most reviews in the snapshot the dashboard renders
MaxReviews == 2

None == "None"
BASE == "https://web-scraping.dev"

Truthy(x) == x # None /\ x # ""

\* Python's `x or y`
PyOr(x, y) == IF Truthy(x) THEN x ELSE y

Last(s) == s[Len(s)]

\* all sequences over S of length at most n
SeqUpTo(S, n) == UNION {[1..k -> S] : k \in 0..n}

RECURSIVE SumSeq(_)
SumSeq(s) == IF s = <<>> THEN 0 ELSE Head(s) + SumSeq(Tail(s))

\* cards / edges served so far in this call
Served == SumSeq([i \in DOMAIN hist |-> hist[i].cards])

\* cards / edges the site may still serve in this call
Budget == (IF mpc = "idle" THEN MaxCards ELSE MainCards) - Served

(***************************************************************************)
(* str.strip() and get_text(strip=True) on the texts of the model.         *)
(***************************************************************************)
strip(s) ==
    CASE s = " " -> ""
      [] s = " a " -> "a"
      [] s = " /product/1 " -> "/product/1"
      [] s = " 2023-03-05" -> "2023-03-05"
      [] OTHER -> s

(***************************************************************************)
(* scrape_products_html                                                    *)
(***************************************************************************)
\* href of a card's ".description h3 a[href]"; None: the card has no such link
Hrefs == {None, "/about", "/product/1", " /product/1 ", "/product/2"}

urljoin(base, href) ==
    CASE href = "/about" -> "https://web-scraping.dev/about"
      [] href = "/product/1" -> "https://web-scraping.dev/product/1"
      [] href = "/product/2" -> "https://web-scraping.dev/product/2"
      [] OTHER -> base

urlpath(url) ==
    CASE url = "https://web-scraping.dev/about" -> "/about"
      [] url = "https://web-scraping.dev/product/1" -> "/product/1"
      [] url = "https://web-scraping.dev/product/2" -> "/product/2"
      [] OTHER -> ""

\* re.search(r"^/product/\d+/?$", path) is not None
IsProductPath(path) == path \in {"/product/1", "/product/2"}

ProductResps(n) ==
    {[status |-> 404, rows |-> <<>>]}
        \cup {[status |-> 200, rows |-> rs] : rs \in SeqUpTo([href : Hrefs], n)}

\* the body of `for row in rows`, folded over the rows of one page
RECURSIVE ProductRows(_, _, _)
ProductRows(rows, pg, st) ==
    IF rows = <<>> THEN st
    ELSE LET a == Head(rows).href
             url == urljoin(BASE, strip(a))
         IN  IF a = None THEN ProductRows(Tail(rows), pg, st)
             ELSE IF ~IsProductPath(urlpath(url))
             THEN ProductRows(Tail(rows), pg, st)
             ELSE IF url \in st.seen_urls
             THEN ProductRows(Tail(rows), pg,
                      [st EXCEPT !.cands = Append(@, [url |-> url, page |-> pg])])
             ELSE ProductRows(Tail(rows), pg,
                      [products |-> Append(st.products, [url |-> url, page |-> pg]),
                       seen_urls |-> st.seen_urls \cup {url},
                       page_added |-> st.page_added + 1,
                       cands |-> Append(st.cands, [url |-> url, page |-> pg])])

\* mutant: the loop stops on a failed request or a page without rows only
ProductsBreak_rowsOnly(status, rows, page_added) ==
    status # 200 \/ rows = <<>>

\* the three `break`s of the loop body
ProductsBreak(status, rows, page_added) ==
    status # 200 \/ rows = <<>> \/ page_added = 0

ProductsIter ==
    /\ driver = "products" /\ pc = "loop"
    /\ \E r \in ProductResps(Budget) :
        LET st == IF r.status = 200
                  THEN ProductRows(r.rows, page,
                           [products |-> products, seen_urls |-> seen_urls,
                            page_added |-> 0, cands |-> collected])
                  ELSE [products |-> products, seen_urls |-> seen_urls,
                        page_added |-> 0, cands |-> collected]
            sent == Append(log, [op |-> "GET", page |-> page])
            stop == ProductsBreak(r.status, r.rows, st.page_added)
        IN  /\ products' = st.products
            /\ seen_urls' = st.seen_urls
            /\ collected' = st.cands
            /\ hist' = Append(hist, [status |-> r.status, cards |-> Len(r.rows),
                                     added |-> st.page_added, stop |-> stop])
            /\ log' = IF stop THEN sent ELSE Append(sent, [op |-> "sleep"])
            /\ page' = IF stop THEN page ELSE page + 1
            /\ pc' = IF stop \/ page = max_pages THEN "return" ELSE "loop"
    /\ UNCHANGED <<driver, max_pages, testimonials, all_reviews, after, resp,
                   ret, err>>
    /\ UNCHANGED <<mainVars, dashVars>>

ProductsReturn ==
    /\ driver = "products" /\ pc = "return"
    /\ ret' = products
    /\ pc' = "done"
    /\ UNCHANGED <<driver, max_pages, page, products, seen_urls, testimonials,
                   all_reviews, after, resp, err, log, hist, collected>>
    /\ UNCHANGED <<mainVars, dashVars>>

(***************************************************************************)
(* pandas: DataFrame(records).drop_duplicates(subset=...) and to_dict      *)
(***************************************************************************)
Columns(df) == IF df = <<>> THEN {} ELSE DOMAIN df[1]

KeyOf(row, subset) == [c \in subset |-> row[c]]

\* mutant: keep="last"
IsDuplicate_keepLast(df, subset, i) ==
    \E j \in (i + 1)..Len(df) : KeyOf(df[j], subset) = KeyOf(df[i], subset)

\* keep="first" (the default): a row is dropped when an earlier row has its key
IsDuplicate(df, subset, i) ==
    \E j \in 1..(i - 1) : KeyOf(df[j], subset) = KeyOf(df[i], subset)

RECURSIVE KeepFrom(_, _, _)
KeepFrom(df, subset, i) ==
    IF i > Len(df) THEN <<>>
    ELSE IF IsDuplicate(df, subset, i) THEN KeepFrom(df, subset, i + 1)
    ELSE <<df[i]>> \o KeepFrom(df, subset, i + 1)

\* mutant: the columns of an empty frame are looked up as well
drop_duplicates_noEmptyGuard(df, subset) ==
    IF ~(subset \subseteq Columns(df)) THEN [raised |-> TRUE, rows |-> <<>>]
    ELSE [raised |-> FALSE, rows |-> KeepFrom(df, subset, 1)]

\* the call as the drivers make it; raised: a KeyError for a missing column.
\* An empty frame is returned as it is, before the columns are looked at.
drop_duplicates(df, subset) ==
    IF df = <<>> THEN [raised |-> FALSE, rows |-> df]
    ELSE IF ~(subset \subseteq Columns(df)) THEN [raised |-> TRUE, rows |-> <<>>]
    ELSE [raised |-> FALSE, rows |-> KeepFrom(df, subset, 1)]

(***************************************************************************)
(* scrape_testimonials_api                                                 *)
(***************************************************************************)
\* text of a card's "p.text"; None: the card has no such element
Texts == {None, " ", "a", " a ", "b"}

TestimonialResps(n) ==
    {[status |-> 403, cards |-> <<>>]}
        \cup {[status |-> 200, cards |-> cs] : cs \in SeqUpTo([text : Texts], n)}

\* the body of `for idx, card in enumerate(cards)`, folded over one page
RECURSIVE TestimonialCards(_, _, _, _)
TestimonialCards(cards, pg, idx, acc) ==
    IF cards = <<>> THEN acc
    ELSE LET p == Head(cards).text
             text == IF p = None THEN None ELSE strip(p)
         IN  TestimonialCards(Tail(cards), pg, idx + 1,
                 IF Truthy(text)
                 THEN Append(acc, [page |-> pg, idx |-> idx, text |-> text])
                 ELSE acc)

\* mutant: a page without cards does not end the loop
TestimonialsBreak_statusOnly(status, cards) == status # 200

\* the two `break`s of the loop body
TestimonialsBreak(status, cards) == status # 200 \/ cards = <<>>

TestimonialsIter ==
    /\ driver = "testimonials" /\ pc = "loop"
    /\ \E r \in TestimonialResps(Budget) :
        LET stop == TestimonialsBreak(r.status, r.cards)
            acc == IF stop THEN testimonials
                   ELSE TestimonialCards(r.cards, page, 0, testimonials)
            sent == Append(log, [op |-> "GET", page |-> page])
        IN  /\ testimonials' = acc
            /\ collected' = acc
            /\ hist' = Append(hist, [status |-> r.status, cards |-> Len(r.cards),
                                     added |-> Len(acc) - Len(testimonials),
                                     stop |-> stop])
            /\ log' = IF stop THEN sent ELSE Append(sent, [op |-> "sleep"])
            /\ page' = IF stop THEN page ELSE page + 1
            /\ pc' = IF stop \/ page = max_pages THEN "return" ELSE "loop"
    /\ UNCHANGED <<driver, max_pages, products, seen_urls, all_reviews, after,
                   resp, ret, err>>
    /\ UNCHANGED <<mainVars, dashVars>>

TestimonialsReturn ==
    /\ driver = "testimonials" /\ pc = "return"
    /\ LET df == drop_duplicates(testimonials, {"text"})
       IN  IF df.raised
           THEN err' = "KeyError" /\ pc' = "raised" /\ ret' = ret
           ELSE err' = err /\ pc' = "done" /\ ret' = df.rows
    /\ UNCHANGED <<driver, max_pages, page, products, seen_urls, testimonials,
                   all_reviews, after, resp, log, hist, collected>>
    /\ UNCHANGED <<mainVars, dashVars>>

(***************************************************************************)
(* Calendar dates: datetime.strptime(s, "%Y-%m-%d"), date.isoformat(),     *)
(* pd.to_datetime(..., errors="coerce")                                    *)
(***************************************************************************)
\* the year, month and day fields of a string of the form Y-m-d; <<>>: the
\* string has no such form
DateFields(s) ==
    CASE s = "2022-12-31" -> <<2022, 12, 31>>
      [] s = "2023-02-30" -> <<2023, 2, 30>>
      [] s = "2023-03-05" -> <<2023, 3, 5>>
      [] s = "2023-3-5" -> <<2023, 3, 5>>
      [] s = "2023-03-31" -> <<2023, 3, 31>>
      [] s = "2023-04-01" -> <<2023, 4, 1>>
      [] s = "2023-12-31" -> <<2023, 12, 31>>
      [] s = "2024-01-01" -> <<2024, 1, 1>>
      [] OTHER -> <<>>

IsLeap(y) == (y % 4 = 0 /\ y % 100 # 0) \/ y % 400 = 0

DaysInMonth(y, m) ==
    IF m = 2 THEN (IF IsLeap(y) THEN 29 ELSE 28)
    ELSE IF m \in {4, 6, 9, 11} THEN 30 ELSE 31

IsCalendarDate(d) ==
    /\ Len(d) = 3
    /\ d[2] \in 1..12
    /\ d[3] \in 1..DaysInMonth(d[1], d[2])

strptime(s) ==
    LET d == DateFields(s) IN IF IsCalendarDate(d) THEN d ELSE <<>>

isoformat(d) ==
    CASE d = <<2022, 12, 31>> -> "2022-12-31"
      [] d = <<2023, 3, 5>> -> "2023-03-05"
      [] d = <<2023, 3, 31>> -> "2023-03-31"
      [] d = <<2023, 4, 1>> -> "2023-04-01"
      [] d = <<2023, 12, 31>> -> "2023-12-31"
      [] d = <<2024, 1, 1>> -> "2024-01-01"
      [] OTHER -> "?"

\* d1 < d2 on dates
DateLess(d1, d2) ==
    \/ d1[1] < d2[1]
    \/ d1[1] = d2[1] /\ d1[2] < d2[2]
    \/ d1[1] = d2[1] /\ d1[2] = d2[2] /\ d1[3] < d2[3]

(***************************************************************************)
(* scrape_reviews_api                                                      *)
(***************************************************************************)
parse_date(date_str) == strptime(strip(date_str))

\* the date and text of the nodes the GraphQL endpoint may return
Nodes ==
    { [date |-> None, text |-> "a"],
      [date |-> "2023-03-05", text |-> None],
      [date |-> "2023-02-30", text |-> "a"],
      [date |-> "2023-03-05", text |-> " "],
      [date |-> "2023-03-05", text |-> "a"],
      [date |-> " 2023-03-05", text |-> " a "],
      [date |-> "2023-04-01", text |-> "a"] }

EndCursors == {None, "", "c1"}

\* The edges of one response.  Either every edge carries a cursor or none
\* does; "e" is the cursor of the last edge and "x" that of the others.
\* rid, the server's identifier of the review, is the edge's position in the
\* run (request number, index).
Edges(ns, withCursor, req) ==
    [i \in DOMAIN ns |->
        [node |-> [rid |-> <<req, i>>, date |-> ns[i].date, text |-> ns[i].text],
         cursor |-> IF ~withCursor THEN None
                    ELSE IF i = Len(ns) THEN "e" ELSE "x"]]

ReviewResps(n, req) ==
    {[status |-> 500, errors |-> FALSE, edges |-> <<>>,
      hasNextPage |-> FALSE, endCursor |-> None],
     [status |-> 200, errors |-> TRUE, edges |-> <<>>,
      hasNextPage |-> FALSE, endCursor |-> None]}
        \cup {[status |-> 200, errors |-> FALSE, edges |-> Edges(ns, wc, req),
               hasNextPage |-> h, endCursor |-> c] :
                  ns \in SeqUpTo(Nodes, n), wc \in BOOLEAN, h \in BOOLEAN,
                  c \in EndCursors}

\* whether an edge's node is appended to all_reviews
ReviewKept(date_str, text) ==
    /\ Truthy(date_str) /\ Truthy(text)
    /\ parse_date(date_str) # <<>>

\* the body of `for edge in edges`, folded over one response
RECURSIVE ReviewEdges(_, _)
ReviewEdges(edges, acc) ==
    IF edges = <<>> THEN acc
    ELSE LET node == Head(edges).node
         IN  ReviewEdges(Tail(edges),
                 IF ReviewKept(node.date, node.text)
                 THEN Append(acc, [rid |-> node.rid,
                                   date |-> isoformat(parse_date(node.date)),
                                   text |-> strip(node.text)])
                 ELSE acc)

\* resp before the first response, and after one without pageInfo or edges
NoResp == [endCursor |-> None, lastCursor |-> None]

\* the three `break`s before the edges are read
ReviewsBreak(status, errors, edges) ==
    status # 200 \/ errors \/ edges = <<>>

\* mutant: no fallback to the last edge's cursor
NextCursor_noFallback(endCursor, edges) == endCursor

\* after = page_info.get("endCursor") or edges[-1].get("cursor")
NextCursor(endCursor, edges) == PyOr(endCursor, Last(edges).cursor)

ReviewsIter ==
    /\ driver = "reviews" /\ pc = "loop"
    /\ \E r \in ReviewResps(Budget, page) :
        LET early == ReviewsBreak(r.status, r.errors, r.edges)
            acc == IF early THEN all_reviews ELSE ReviewEdges(r.edges, all_reviews)
            stop == early \/ ~r.hasNextPage
            sent == Append(log, [op |-> "POST", after |-> after])
        IN  /\ all_reviews' = acc
            /\ collected' = acc
            /\ hist' = Append(hist,
                   [status |-> r.status, errors |-> r.errors,
                    cards |-> Len(r.edges), added |-> Len(acc) - Len(all_reviews),
                    hasNextPage |-> r.hasNextPage, stop |-> stop])
            /\ resp' = IF early THEN NoResp
                       ELSE [endCursor |-> r.endCursor,
                             lastCursor |-> Last(r.edges).cursor]
            /\ after' = IF stop THEN after ELSE NextCursor(r.endCursor, r.edges)
            /\ log' = IF stop THEN sent ELSE Append(sent, [op |-> "sleep"])
            /\ page' = IF stop THEN page ELSE page + 1
            /\ pc' = IF stop \/ page = max_pages THEN "return" ELSE "loop"
    /\ UNCHANGED <<driver, max_pages, products, seen_urls, testimonials, ret, err>>
    /\ UNCHANGED <<mainVars, dashVars>>

ReviewsReturn ==
    /\ driver = "reviews" /\ pc = "return"
    /\ LET df == drop_duplicates(all_reviews, {"date", "text"})
       IN  IF df.raised
           THEN err' = "KeyError" /\ pc' = "raised" /\ ret' = ret
           ELSE err' = err /\ pc' = "done" /\ ret' = df.rows
    /\ UNCHANGED <<driver, max_pages, page, products, seen_urls, testimonials,
                   all_reviews, after, resp, log, hist, collected>>
    /\ UNCHANGED <<mainVars, dashVars>>

(***************************************************************************)
(* A call of one driver with some max_pages argument                       *)
(***************************************************************************)
NoDoc == [products |-> <<>>, testimonials |-> <<>>, reviews |-> <<>>,
          scraped_at |-> None, source |-> None]

NoGot == [d \in {"products", "testimonials", "reviews"} |->
             [first |-> 0, collected |-> <<>>]]

NoView == [df_2023 |-> <<>>, selected |-> <<>>,
           start |-> <<>>, end |-> <<>>, filtered |-> <<>>,
           clf_calls |-> <<>>, preds |-> <<>>, shown |-> <<>>]

\* the locals of a driver at its first statement
DriverEntry(d, maxp) ==
    /\ driver = d
    /\ pc = "loop"
    /\ max_pages = maxp
    /\ page = 1
    /\ products = <<>>
    /\ seen_urls = {}
    /\ testimonials = <<>>
    /\ all_reviews = <<>>
    /\ after = None
    /\ resp = NoResp
    /\ ret = <<>>
    /\ err = ""
    /\ log = <<>>
    /\ hist = <<>>
    /\ collected = <<>>

Init ==
    /\ \E d \in {"products", "testimonials", "reviews"}, maxp \in 1..MaxPages :
           DriverEntry(d, maxp)
    /\ mpc = "idle" /\ out = NoDoc /\ got = NoGot /\ buf = <<>> /\ file = <<>>
    /\ data = [state |-> "idle", doc |-> NoDoc]
    /\ dpc = "idle" /\ view = NoView

Next ==
    \/ ProductsIter
    \/ ProductsReturn
    \/ TestimonialsIter
    \/ TestimonialsReturn
    \/ ReviewsIter
    \/ ReviewsReturn

Spec == Init /\ [][Next]_vars

(***************************************************************************)
(* data.json: json.dump, json.load                                         *)
(***************************************************************************)
Keys == <<"products", "testimonials", "reviews", "scraped_at", "source">>

\* the chunks json.dump writes one after the other: the opening brace, one
\* "key": value member per key, the closing brace
json_chunks(doc) ==
    <<[k |-> "{", v |-> <<>>]>>
        \o [i \in DOMAIN Keys |-> [k |-> Keys[i], v |-> doc[Keys[i]]]]
        \o <<[k |-> "}", v |-> <<>>]>>

\* json.load of a file's content: the document, or a JSONDecodeError when the
\* content is empty or stops before the closing brace
json_load(content) ==
    IF content # <<>> /\ Head(content).k = "{" /\ Last(content).k = "}"
    THEN [state |-> "loaded",
          doc |-> [products |-> content[2].v, testimonials |-> content[3].v,
                   reviews |-> content[4].v, scraped_at |-> content[5].v,
                   source |-> content[6].v]]
    ELSE [state |-> "JSONDecodeError", doc |-> NoDoc]

\* the snapshot an earlier run left in data.json
PrevSnapshot ==
    [products |-> <<[url |-> "https://web-scraping.dev/product/1", page |-> 1]>>,
     testimonials |-> <<>>, reviews |-> <<>>,
     scraped_at |-> "t0", source |-> BASE]

(***************************************************************************)
(* scrape_data.main, and the dashboard process loading data.json           *)
(***************************************************************************)
\* the locals of driver d at its first statement; d = "none": the last
\* driver has returned and its locals are gone
Enter(d) ==
    /\ driver' = d
    /\ pc' = IF d = "none" THEN "done" ELSE "loop"
    /\ page' = 1
    /\ products' = <<>>
    /\ seen_urls' = {}
    /\ testimonials' = <<>>
    /\ all_reviews' = <<>>
    /\ after' = None
    /\ resp' = NoResp
    /\ ret' = <<>>
    /\ log' = <<>>
    /\ hist' = <<>>
    /\ collected' = <<>>
    /\ UNCHANGED <<max_pages, err>>

\* the dict literal `out = {...}`: a driver has returned (or raised); its
\* list is stored and the next driver is called, or now() and BASE are added
MainCollect ==
    /\ mpc = "run" /\ pc \in {"done", "raised"}
    /\ got' = IF pc = "raised" THEN got
              ELSE [got EXCEPT ![driver] = [first |-> hist[1].status,
                                            collected |-> collected]]
    /\ IF pc = "raised"
       THEN /\ mpc' = "crashed"
            /\ UNCHANGED <<drvVars, out>>
       ELSE IF driver = "products"
       THEN /\ out' = [out EXCEPT !.products = ret]
            /\ Enter("testimonials")
            /\ mpc' = mpc
       ELSE IF driver = "testimonials"
       THEN /\ out' = [out EXCEPT !.testimonials = ret]
            /\ Enter("reviews")
            /\ mpc' = mpc
       ELSE /\ out' = [out EXCEPT !.reviews = ret, !.scraped_at = "t1",
                                  !.source = BASE]
            /\ Enter("none")
            /\ mpc' = "open"
    /\ UNCHANGED <<buf, file, data, dashVars>>

\* open("data.json", "w"): the file is truncated
MainOpen ==
    /\ mpc = "open"
    /\ file' = <<>>
    /\ buf' = <<>>
    /\ mpc' = "dump"
    /\ UNCHANGED <<drvVars, out, got, data, dashVars>>

\* json.dump: the next chunk is written to the buffered file object
MainDump ==
    /\ mpc = "dump"
    /\ LET chunks == json_chunks(out)
           n == Len(file) + Len(buf)
       IN  /\ buf' = Append(buf, chunks[n + 1])
           /\ mpc' = IF n + 1 = Len(chunks) THEN "close" ELSE "dump"
    /\ UNCHANGED <<drvVars, out, got, file, data, dashVars>>

\* the file object's buffer is full and is written out
MainFlush ==
    /\ mpc = "dump" /\ buf # <<>>
    /\ file' = file \o buf
    /\ buf' = <<>>
    /\ UNCHANGED <<drvVars, mpc, out, got, data, dashVars>>

\* the end of the `with` block: flush and close
MainClose ==
    /\ mpc = "close"
    /\ file' = file \o buf
    /\ buf' = <<>>
    /\ mpc' = "saved"
    /\ UNCHANGED <<drvVars, out, got, data, dashVars>>

\* app.load_data, in the dashboard process: cached once it has returned
load_data ==
    /\ data.state = "unloaded"
    /\ data' = json_load(file)
    /\ UNCHANGED <<drvVars, mpc, out, got, buf, file, dashVars>>

MainInit ==
    /\ DriverEntry("products", MaxPages)
    /\ mpc = "run" /\ out = NoDoc /\ got = NoGot /\ buf = <<>>
    /\ file = json_chunks(PrevSnapshot)
    /\ data = [state |-> "unloaded", doc |-> NoDoc]
    /\ dpc = "idle" /\ view = NoView

MainNext ==
    \/ ProductsIter
    \/ ProductsReturn
    \/ TestimonialsIter
    \/ TestimonialsReturn
    \/ ReviewsIter
    \/ ReviewsReturn
    \/ MainCollect
    \/ MainOpen
    \/ MainDump
    \/ MainFlush
    \/ MainClose
    \/ load_data

MainSpec == MainInit /\ [][MainNext]_vars

(***************************************************************************)
(* app.py: month_label_to_range and one render of the Reviews view.  A     *)
(* label such as "Mar 2023" is the pair <<"Mar", 2023>> of its %b and %Y   *)
(* fields.                                                                 *)
(***************************************************************************)
MonthAbbr == <<"Jan", "Feb", "Mar", "Apr", "May", "Jun",
               "Jul", "Aug", "Sep", "Oct", "Nov", "Dec">>

\* d.strftime("%b %Y")
strftime_bY(d) == <<MonthAbbr[d[2]], d[1]>>

\* datetime.strptime(label, "%b %Y"): the day defaults to 1
strptime_bY(label) ==
    <<label[2], CHOOSE m \in DOMAIN MonthAbbr : MonthAbbr[m] = label[1], 1>>

month_label_to_range(label) ==
    LET dt == strptime_bY(label)
        start == <<dt[1], dt[2], 1>>
        end == IF dt[2] = 12 THEN <<dt[1] + 1, 1, 1>>
               ELSE <<dt[1], dt[2] + 1, 1>>
    IN  <<start, end>>

\* pd.date_range("2023-01-01", "2023-12-01", freq="MS"), formatted
month_labels == [m \in 1..12 |-> strftime_bY(<<2023, m, 1>>)]

\* pd.to_datetime(s, errors="coerce"): <<>> is NaT
to_datetime(s) == strptime(s)

\* mutant: the end of the range is included
InRange_closed(d, start, end) == ~DateLess(d, start) /\ ~DateLess(end, d)

\* (date_dt >= start) & (date_dt < end)
InRange(d, start, end) == ~DateLess(d, start) /\ DateLess(d, end)

\* mutant: one call per row
ClfBatches_perRow(texts) == [i \in DOMAIN texts |-> <<texts[i]>>]

\* the calls of the classifier for the texts of the filtered frame
ClfBatches(texts) == <<texts>>

\* what the pipeline may answer for one text
ClfLabels == {"POSITIVE", "NEGATIVE", "NEUTRAL"}

\* .map({"POSITIVE": "Positive", "NEGATIVE": "Negative"}).fillna(sentiment)
NormalizeLabel(l) ==
    CASE l = "POSITIVE" -> "Positive"
      [] l = "NEGATIVE" -> "Negative"
      [] OTHER -> l

\* the reviews a snapshot may hold
DashDates == {"2022-12-31", "2023-03-05", "2023-03-31", "2023-04-01",
              "2023-12-31", "2024-01-01", "n/a"}
DashReviews == [date : DashDates, text : {"great product", "bad"}]

\* lines 89-100: the frame, its parsed dates, the 2023 rows
RenderFrame ==
    /\ dpc = "start"
    /\ LET df == [i \in DOMAIN data.doc.reviews |->
                     [date |-> data.doc.reviews[i].date,
                      text |-> data.doc.reviews[i].text,
                      date_dt |-> to_datetime(data.doc.reviews[i].date)]]
           parsed == SelectSeq(df, LAMBDA r : r.date_dt # <<>>)
           df_2023 == SelectSeq(parsed, LAMBDA r : r.date_dt[1] = 2023)
       IN  IF df = <<>>
           THEN /\ view' = [view EXCEPT !.shown = Append(@, "warning: no reviews")]
                /\ dpc' = "done"
           ELSE IF df_2023 = <<>>
           THEN /\ view' = [view EXCEPT
                               !.shown = Append(@, "warning: no 2023 reviews")]
                /\ dpc' = "done"
           ELSE /\ view' = [view EXCEPT !.df_2023 = df_2023]
                /\ dpc' = "select"
    /\ UNCHANGED <<drvVars, mainVars>>

\* lines 102-120: the slider, the month's range, the filtered rows
RenderSelect ==
    /\ dpc = "select"
    /\ \E i \in DOMAIN month_labels :
        LET selected == month_labels[i]
            range == month_label_to_range(selected)
            filtered == SelectSeq(view.df_2023,
                            LAMBDA r : InRange(r.date_dt, range[1], range[2]))
        IN  /\ view' = [view EXCEPT
                           !.selected = selected,
                           !.start = range[1],
                           !.end = range[2],
                           !.filtered = filtered,
                           !.shown = IF filtered = <<>>
                                     THEN Append(@, "info: no reviews in this month")
                                     ELSE @]
            /\ dpc' = IF filtered = <<>> THEN "done" ELSE "classify"
    /\ UNCHANGED <<drvVars, mainVars>>

\* lines 123-132: the classifier and its normalised labels
RenderClassify ==
    /\ dpc = "classify"
    /\ \E preds \in [DOMAIN view.filtered -> ClfLabels] :
        LET texts == [i \in DOMAIN view.filtered |-> view.filtered[i].text]
        IN  view' = [view EXCEPT
                        !.clf_calls = @ \o ClfBatches(texts),
                        !.preds = [i \in DOMAIN preds |-> NormalizeLabel(preds[i])]]
    /\ dpc' = "summary"
    /\ UNCHANGED <<drvVars, mainVars>>

\* lines 134-160: the table, the counts and the mean confidences
RenderSummary ==
    /\ dpc = "summary"
    /\ view' = [view EXCEPT !.shown = Append(@, "sentiment summary")]
    /\ dpc' = "done"
    /\ UNCHANGED <<drvVars, mainVars>>

\* a user interaction: the script runs again on the cached snapshot
Rerun ==
    /\ dpc = "done"
    /\ view' = NoView
    /\ dpc' = "start"
    /\ UNCHANGED <<drvVars, mainVars>>

DashInit ==
    /\ DriverEntry("none", MaxPages)
    /\ mpc = "idle" /\ out = NoDoc /\ got = NoGot /\ buf = <<>> /\ file = <<>>
    /\ \E rs \in SeqUpTo(DashReviews, MaxReviews) :
           data = [state |-> "loaded", doc |-> [NoDoc EXCEPT !.reviews = rs]]
    /\ dpc = "start" /\ view = NoView

DashNext ==
    \/ RenderFrame
    \/ RenderSelect
    \/ RenderClassify
    \/ RenderSummary
    \/ Rerun

DashSpec == DashInit /\ [][DashNext]_vars

(***************************************************************************)
(* Properties                                                              *)
(***************************************************************************)
\* the columns a driver's records are de-duplicated on
KeyCols(d) ==
    CASE d = "products" -> {"url"}
      [] d = "testimonials" -> {"text"}
      [] OTHER -> {"date", "text"}

\* the position of the first record of coll that has the key of row
FirstIndex(coll, row, cols) ==
    CHOOSE i \in DOMAIN coll :
        /\ KeyOf(coll[i], cols) = KeyOf(row, cols)
        /\ \A j \in 1..(i - 1) : KeyOf(coll[j], cols) # KeyOf(row, cols)

\* res holds, for every key of coll, the first record of coll with that key
\* and nothing else, in the order of coll
FirstOccurrences(res, coll, cols) ==
    /\ \A i, j \in DOMAIN res :
           i # j => KeyOf(res[i], cols) # KeyOf(res[j], cols)
    /\ \A i \in DOMAIN coll : \E j \in DOMAIN res :
           KeyOf(res[j], cols) = KeyOf(coll[i], cols)
    /\ \A j \in DOMAIN res :
           /\ \E i \in DOMAIN coll : KeyOf(coll[i], cols) = KeyOf(res[j], cols)
           /\ res[j] = coll[FirstIndex(coll, res[j], cols)]
    /\ \A i, j \in DOMAIN res :
           i < j => FirstIndex(coll, res[i], cols) < FirstIndex(coll, res[j], cols)

\* the requests of a log, without the sleeps
Requests(lg) == SelectSeq(lg, LAMBDA e : e.op # "sleep")

\* a step of the scraper process
ScraperStep ==
    \/ ProductsIter \/ ProductsReturn
    \/ TestimonialsIter \/ TestimonialsReturn
    \/ ReviewsIter \/ ReviewsReturn
    \/ MainCollect \/ MainOpen \/ MainDump \/ MainFlush \/ MainClose

C2_StoppedAt(k) ==
    /\ Len(hist) = k
    /\ Len(Requests(log)) = k
    /\ pc # "loop"
    /\ pc = "done" =>
          \A i \in DOMAIN collected : \E j \in DOMAIN ret :
              KeyOf(ret[j], KeyCols(driver)) = KeyOf(collected[i], KeyCols(driver))

\* pages 1..k-1 each yielded a record and page k yielded none
C2_Case(k) ==
    /\ Len(hist) >= k
    /\ \A i \in 1..(k - 1) : hist[i].added >= 1
    /\ hist[k].added = 0

\* C2 as stated: in each driver, when pages 1..k-1 each yield at least one
\* record and page k yields none (2 <= k <= max_pages), the driver sends
\* exactly k requests and its result holds the records of pages 1..k-1.
C2_StopsAtFirstPageWithoutRecords ==
    driver \in {"products", "testimonials", "reviews"} =>
        \A k \in 2..max_pages : C2_Case(k) => C2_StoppedAt(k)

\* page k of the testimonials or reviews driver has cards (edges) that were
\* all dropped, and announces a next page
C2_AllDropped(k) ==
    /\ driver \in {"testimonials", "reviews"}
    /\ hist[k].status = 200 /\ hist[k].cards > 0
    /\ driver = "reviews" => ~hist[k].errors /\ hist[k].hasNextPage

\* C2 as amended: the statement holds for the products driver; for the
\* testimonials and reviews drivers it holds when page k is a failed request,
\* an error response, a page without cards (edges) or a last page, while a
\* page k whose cards (edges) were all dropped does not stop them: if
\* k < max_pages they request page k+1.
C2_StopsAtFirstEmptyPage ==
    driver \in {"products", "testimonials", "reviews"} =>
        \A k \in 2..max_pages :
            C2_Case(k) =>
                IF C2_AllDropped(k)
                THEN k < max_pages => (Len(hist) > k \/ pc = "loop")
                ELSE C2_StoppedAt(k)

\* the testimonials driver has returned after a second page without cards
C2_Witness ==
    /\ driver = "testimonials" /\ pc = "done" /\ max_pages > 2
    /\ Len(hist) = 2 /\ hist[1].added >= 1
    /\ hist[2].status = 200 /\ hist[2].cards = 0
    /\ Len(ret) >= 1

\* C3: the list a driver returns has no dedup key twice, has a record for
\* every key collected, and that record is the first one collected with the
\* key; the records keep their relative order.
C3_FirstOccurrenceKept ==
    (driver \in {"products", "testimonials", "reviews"} /\ pc = "done") =>
        FirstOccurrences(ret, collected, KeyCols(driver))

\* the reviews driver returned two records and dropped a duplicate collected
\* between or after them
C3_Witness ==
    /\ driver = "reviews" /\ pc = "done"
    /\ Len(ret) = 2 /\ Len(collected) = 3
    /\ collected[2] # ret[2]

\* s is the ISO form of a calendar date
IsIsoDate(s) == strptime(s) # <<>> /\ isoformat(strptime(s)) = s

\* C4: every record scrape_reviews_api returns has a valid ISO calendar date
\* and a non-empty text.
C4_ReviewsHaveDateAndText ==
    (driver = "reviews" /\ pc = "done") =>
        \A i \in DOMAIN ret : IsIsoDate(ret[i].date) /\ ret[i].text # ""

\* C5: the dashboard loads either the complete previous snapshot or the
\* complete new one, never an empty or partially written document.
C5_SnapshotReadIsAtomic ==
    \/ data.state = "unloaded"
    \/ data.state = "loaded" /\ data.doc = PrevSnapshot
    \/ data.state = "loaded" /\ data.doc = out /\ mpc \in {"close", "saved"}

\* the rows of df_2023 whose date is d
RowsDated(d) == {i \in DOMAIN view.df_2023 : view.df_2023[i].date = d}

\* a row of df_2023 is among the filtered rows
Shown(i) == \E j \in DOMAIN view.filtered : view.filtered[j] = view.df_2023[i]

\* C6: for each label "Jan 2023" .. "Dec 2023" the range is (first of the
\* month, first of the next month), 2024-01-01 after December; the filtered
\* rows are the 2023 rows with start <= date < end, so 2023-03-05 is shown
\* under "Mar 2023" only and 2023-04-01 under "Apr 2023", not "Mar 2023".
C6_MonthRangeAndFilter ==
    /\ \A m \in 1..12 :
           month_label_to_range(<<MonthAbbr[m], 2023>>) =
               <<(<<2023, m, 1>>),
                 (IF m = 12 THEN <<2024, 1, 1>> ELSE <<2023, m + 1, 1>>)>>
    /\ view.selected # <<>> =>
          /\ \E m \in 1..12 :
                 /\ view.selected = <<MonthAbbr[m], 2023>>
                 /\ view.start = <<2023, m, 1>>
                 /\ view.end = IF m = 12 THEN <<2024, 1, 1>>
                               ELSE <<2023, m + 1, 1>>
                 /\ \A i \in DOMAIN view.df_2023 :
                        Shown(i) <=> view.df_2023[i].date_dt[2] = m
          /\ Len(view.filtered) =
                 Cardinality({i \in DOMAIN view.df_2023 : Shown(i)})
          /\ \A i \in RowsDated("2023-03-05") :
                 Shown(i) <=> view.selected = <<"Mar", 2023>>
          /\ \A i \in RowsDated("2023-04-01") :
                 Shown(i) <=> view.selected = <<"Apr", 2023>>

\* "Mar 2023" is selected for a snapshot with a review of 2023-03-05 and one
\* of 2023-04-01, and only the first is shown
C6_Witness ==
    /\ view.selected = <<"Mar", 2023>>
    /\ RowsDated("2023-03-05") # {} /\ RowsDated("2023-04-01") # {}
    /\ Len(view.filtered) = 1
    /\ view.filtered[1].date = "2023-03-05"

\* C7: in one render the classifier is called at most once, with the texts of
\* all filtered rows, and only when the 2023 rows and the filtered rows are
\* both non-empty; otherwise the render ends with one message and neither the
\* classifier nor the sentiment summary is reached.
C7_ClassifierOncePerRender ==
    /\ Len(view.clf_calls) <= 1
    /\ view.clf_calls # <<>> =>
          /\ view.df_2023 # <<>> /\ view.filtered # <<>>
          /\ view.clf_calls[1] =
                 [i \in DOMAIN view.filtered |-> view.filtered[i].text]
    /\ (dpc = "done" /\ (view.df_2023 = <<>> \/ view.filtered = <<>>)) =>
          /\ view.clf_calls = <<>>
          /\ Len(view.shown) = 1
          /\ view.shown[1] \in {"warning: no reviews", "warning: no 2023 reviews",
                                "info: no reviews in this month"}
    /\ (dpc = "done" /\ view.filtered # <<>>) =>
          Len(view.clf_calls) = 1 /\ view.shown = <<"sentiment summary">>

\* a render that classified a month with two reviews has ended
C7_Witness ==
    /\ dpc = "done"
    /\ Len(view.filtered) = 2
    /\ Len(view.clf_calls) = 1 /\ Len(view.clf_calls[1]) = 2

\* C8: in the products driver no delay follows the last page fetched,
\* whichever condition ended the run: every sleep is followed by a request.
C8_NoDelayAfterLastPage ==
    (driver = "products" /\ pc \in {"return", "done"}) =>
        /\ log # <<>> /\ Last(log).op = "GET"
        /\ \A i \in DOMAIN log :
               log[i].op = "sleep" => (i < Len(log) /\ log[i + 1].op = "GET")

\* the cursor the claim gives request n+1: the last response's endCursor, or
\* its last edge's cursor when the endCursor is absent (null or empty)
C9_Cursor == IF resp.endCursor \in {None, ""} THEN resp.lastCursor
             ELSE resp.endCursor

\* C9: the first request of the reviews driver carries no cursor; a further
\* request is sent only after a response with status 200, no errors, edges
\* and hasNextPage, and carries that response's endCursor, or its last edge's
\* cursor when the endCursor is absent; at most max_pages requests are sent.
C9_CursorProtocol ==
    [][(driver = "reviews" /\ Len(Requests(log')) # Len(Requests(log))) =>
          /\ Len(Requests(log')) = Len(Requests(log)) + 1
          /\ Len(Requests(log')) <= max_pages
          /\ Last(Requests(log')).op = "POST"
          /\ IF Requests(log) = <<>>
             THEN Last(Requests(log')).after = None
             ELSE /\ Last(hist).status = 200 /\ ~Last(hist).errors
                  /\ Last(hist).cards > 0 /\ Last(hist).hasNextPage
                  /\ Last(Requests(log')).after = C9_Cursor]_vars

\* three requests: the second carries the last edge's cursor, the third an
\* endCursor
C9_Witness ==
    /\ driver = "reviews"
    /\ Len(Requests(log)) = 3
    /\ Requests(log)[1].after = None
    /\ Requests(log)[2].after = "e"
    /\ Requests(log)[3].after = "c1"

\* C10: the products driver stops at the first page that adds no new
\* product, also when that page has product cards: it is the last page
\* requested, and no product of a later page is in the result.
C10_StopsWhenNothingAdded ==
    driver = "products" =>
        /\ Len(Requests(log)) = Len(hist)
        /\ \A i \in DOMAIN hist :
               hist[i].added = 0 => (i = Len(hist) /\ pc # "loop")
        /\ \A i \in DOMAIN products : products[i].page <= Len(hist)
        /\ pc = "done" => ret = products

\* a page with cards that added nothing ended the run before max_pages
C10_Witness ==
    /\ driver = "products" /\ pc = "done"
    /\ Len(hist) < max_pages
    /\ Last(hist).status = 200 /\ Last(hist).cards > 0 /\ Last(hist).added = 0
    /\ Len(ret) >= 1

====
